---- MODULE Spec2Model ----
(***************************************************************************)
(* Synchronization engine of simulive-fi: the server clock                 *)
(* (src/lib/server-time.ts), the live-offset hook                          *)
(* (src/hooks/useServerTimeSync.ts), the dual stream controller            *)
(* (src/components/DualVideoPlayer.tsx), the session phase hook            *)
(* (src/hooks/useSessionState.ts) and the chat feed merge                  *)
(* (src/hooks/useChat.ts).                                                 *)
(*                                                                         *)
(* Units.  Clock readings (Date.now(), Date values, Timestamp.toMillis())  *)
(* are whole milliseconds.  serverTimeOffset is stored DOUBLED (in half    *)
(* milliseconds) because latency = (endTime - startTime) / 2 may be a half *)
(* millisecond.  liveOffset and a stream's currentTime are seconds in the  *)
(* code; here they are kept in thousandths of a second, so that            *)
(* (a - b) / 1000 is exact.                                                *)
(***************************************************************************)
EXTENDS Integers, Sequences, FiniteSets, TLC

\* ------------------------------------------------------------------ bounds
MaxClock == 350000
\* total time spent waiting for timers that a run follows
MaxWatch == 35000
\* round trips to the timestamp authority that a run follows
MaxRoundTrips == 2
\* mounts and session changes of the player that a run follows
MaxRenders == 3
\* getServerTime calls in flight at once
MaxCalls == 2

\* ------------------------------------------------------- program constants
OFFSET_CACHE_DURATION_MS == 300000
RESYNC_INTERVAL_MS == 30000
SYNC_INTERVAL_MS == 5000
DRIFT_THRESHOLD_SECONDS == 250

\* ---------------------------------------------------------- input domains
\* server clock minus local clock, fixed for a run
Skews == {-1500, 0}
\* time that passes before a store operation answers
WriteLatencies == {1, 100}
ReadLatency == 1
\* time that passes while no player is mounted
IdleSteps == {OFFSET_CACHE_DURATION_MS - 1, OFFSET_CACHE_DURATION_MS}
Streams == {"main", "face"}
\* how far a playing stream gets while time passes: -1 = it keeps up,
\* otherwise it stalls (buffering) after that many thousandths of a second
Progress == {-1, DRIFT_THRESHOLD_SECONDS, DRIFT_THRESHOLD_SECONDS + 1}
ProgressChoices == [Streams -> Progress]
FullRate == [s \in Streams |-> -1]
\* blocked[s]: the browser rejects play() of the stream until a user gesture
BlockChoices == [Streams -> BOOLEAN]
NoBlock == [s \in Streams |-> FALSE]

\* scheduledStart as the hook accepts it: a date string (a = seconds,
\* b = milliseconds field of the ISO text), a Firestore Timestamp
\* (a = seconds, b = nanoseconds) or a Date (a = epoch milliseconds)
StartString == [kind |-> "string", a |-> 9, b |-> 500]
StartTimestamp == [kind |-> "Timestamp", a |-> 12, b |-> 500000000]
StartDate == [kind |-> "Date", a |-> 8000, b |-> 0]

\* the session records the player is rendered with
SessionProps ==
  { [id |-> "s1", scheduledStart |-> StartDate, faceUrl |-> TRUE],
    [id |-> "s1", scheduledStart |-> StartString, faceUrl |-> TRUE],
    [id |-> "s2", scheduledStart |-> StartTimestamp, faceUrl |-> FALSE] }
StartProps == CHOOSE p \in SessionProps : p.scheduledStart = StartDate

\* ------------------------------------------------------------------ helpers
Null == <<>>
Some(x) == <<x>>
Val(o) == o[1]

Max(a, b) == IF a >= b THEN a ELSE b
Min(a, b) == IF a <= b THEN a ELSE b
Abs(a) == IF a >= 0 THEN a ELSE -a

\* new Date(v) for v given in half milliseconds: the time value is
\* truncated toward zero to a whole millisecond
NewDate(v2) == IF v2 >= 0 THEN v2 \div 2 ELSE -((-v2) \div 2)

VARIABLES
  clock,            \* Date.now() of this client
  skew,             \* server clock - local clock
  serverTimeOffset, \* Null or Some(offset in half milliseconds)
  lastSyncTime,
  calls,            \* getServerTime calls whose round trip is in flight
  lastResult,       \* how the latest getServerTime call settled
  roundTrips,       \* round trips started so far
  watched,          \* time spent waiting for timers so far
  renders,          \* mounts and session changes so far
  mounted,          \* a DualVideoPlayer instance exists
  props,            \* its session prop
  liveOffset, isSynced, isMounted,
  hookDeadline,     \* next firing of setInterval(sync, 30000), or Null
  playerDeadline,   \* next firing of the correction interval, or Null
  refs,             \* refs[s]: the stream's player element is attached
  currentTime, paused,
  blocked,          \* blocked[s]: play() of the stream is rejected
  lastTick,         \* the seeks and play() calls of the latest correction tick
  cleaned           \* cleaned[s]: what the cleanup of the latest unmount did to
                    \* the stream

clockVars == <<clock, skew, serverTimeOffset, lastSyncTime, calls, lastResult, roundTrips, watched, renders, renders>>
hookVars == <<mounted, props, liveOffset, isSynced, isMounted, hookDeadline>>
playerVars == <<playerDeadline, refs, currentTime, paused, blocked, lastTick, cleaned>>
syncVars == <<clockVars, hookVars, playerVars>>

NoResult == [kind |-> "none", path |-> "none", value |-> 0, n |-> 0]
NotCleaned == [s \in Streams |-> <<>>]
NoTick == [n |-> 0, seeked |-> [s \in Streams |-> FALSE],
           played |-> [s \in Streams |-> FALSE]]

SyncInit ==
  /\ clock = 10000
  /\ skew \in Skews
  /\ serverTimeOffset = Null
  /\ lastSyncTime = 0
  /\ calls = <<>>
  /\ lastResult = NoResult
  /\ roundTrips = 0
  /\ watched = 0
  /\ renders = 0
  /\ mounted = FALSE
  /\ props = StartProps
  /\ liveOffset = 0
  /\ isSynced = FALSE
  /\ isMounted = FALSE
  /\ hookDeadline = Null
  /\ playerDeadline = Null
  /\ refs = [s \in Streams |-> FALSE]
  /\ currentTime = [s \in Streams |-> 0]
  /\ paused = [s \in Streams |-> TRUE]
  /\ blocked = NoBlock
  /\ lastTick = NoTick
  /\ cleaned = NotCleaned

\* ------------------------------------------------------------ conversions
\* startDate.getTime() of the hook: new Date(text), Timestamp.toDate() (whole
\* milliseconds, the sub-millisecond part is dropped) or the Date itself
StartMillis(st) ==
  CASE st.kind = "string" -> st.a * 1000 + st.b
    [] st.kind = "Timestamp" -> st.a * 1000 + (st.b \div 1000000)
    [] OTHER -> st.a

LiveOffsetOfSwapped(serverTime, st) == Max(0, StartMillis(st) - serverTime)
LiveOffsetOfUnclamped(serverTime, st) == serverTime - StartMillis(st)

\* Math.max(0, (serverTime.getTime() - startDate.getTime()) / 1000)
LiveOffsetOf(serverTime, st) == Max(0, serverTime - StartMillis(st))

Settled(kind, path, value) ==
  [kind |-> kind, path |-> path, value |-> value, n |-> 1 - lastResult.n]

\* ------------------------------------------------------- DualVideoPlayer
\* A stream that is attached and not paused plays on while d ms pass
Progressed(d, c) ==
  [s \in Streams |->
     IF refs[s] /\ ~paused[s]
     THEN currentTime[s] + (IF c[s] = -1 THEN d ELSE Min(d, c[s]))
     ELSE currentTime[s]]

Player(dl, rf, ct, pa) ==
  [playerDeadline |-> dl, refs |-> rf, currentTime |-> ct, paused |-> pa]
PlayerNow(ct) == Player(playerDeadline, refs, ct, paused)

RenderedNoInitialSeek(t, pl, syn0, off0, syn1, off1, face, bl) ==
  LET rf == [s \in Streams |-> syn1 /\ (s = "main" \/ face)]
      fresh(s) == rf[s] /\ ~pl.refs[s]
      ct0 == [s \in Streams |-> IF rf[s] /\ ~fresh(s) THEN pl.currentTime[s] ELSE 0]
      pa == [s \in Streams |->
               IF ~rf[s] THEN TRUE
               ELSE IF fresh(s) THEN bl[s] ELSE pl.paused[s]]
      changed == syn0 # syn1 \/ off0 # off1
      dl == IF ~changed THEN pl.playerDeadline
            ELSE IF syn1 THEN Some(t + SYNC_INTERVAL_MS) ELSE Null
  IN Player(dl, rf, ct0, pa)

\* One render of DualVideoPlayer followed by its effects.  (syn0, off0) are
\* the hook values of the previous render, (syn1, off1) those of this one;
\* bl[s]: autoplay of a newly attached stream is blocked.
Rendered(t, pl, syn0, off0, syn1, off1, face, bl) ==
  LET rf == [s \in Streams |-> syn1 /\ (s = "main" \/ face)]
      fresh(s) == rf[s] /\ ~pl.refs[s]
      ct0 == [s \in Streams |-> IF rf[s] /\ ~fresh(s) THEN pl.currentTime[s] ELSE 0]
      pa == [s \in Streams |->
               IF ~rf[s] THEN TRUE
               ELSE IF fresh(s) THEN bl[s] ELSE pl.paused[s]]
      changed == syn0 # syn1 \/ off0 # off1
      \* effect [liveOffset, isSynced]: the correction interval is re-armed
      dl == IF ~changed THEN pl.playerDeadline
            ELSE IF syn1 THEN Some(t + SYNC_INTERVAL_MS) ELSE Null
      \* effect [isSynced, liveOffset]: seek to the live point
      ct == [s \in Streams |->
               IF changed /\ syn1 /\ off1 > 0 /\ rf[s] THEN off1 ELSE ct0[s]]
  IN Player(dl, rf, ct, pa)

SetPlayer(pl) ==
  /\ playerDeadline' = pl.playerDeadline
  /\ refs' = pl.refs
  /\ currentTime' = pl.currentTime
  /\ paused' = pl.paused

\* ------------------------------------------------------ useServerTimeSync
\* sync() after "await getServerTime()" resolved with serverTime; cl is the
\* closure of the effect run that called sync, im the value of
\* isMounted.current
Resolved(t, serverTime, cl, im, pl, face, bl) ==
  IF cl.alive /\ im
  THEN LET off == LiveOffsetOf(serverTime, cl.scheduledStart) IN
       /\ liveOffset' = off
       /\ isSynced' = TRUE
       /\ SetPlayer(Rendered(t, pl, isSynced, liveOffset, TRUE, off, face, bl))
  ELSE /\ UNCHANGED <<liveOffset, isSynced>>
       /\ SetPlayer(pl)

SyncFailedMarksSynced(pl) ==
  /\ liveOffset' = 0
  /\ isSynced' = TRUE
  /\ SetPlayer(pl)

\* catch block of sync(): the error is logged, nothing else happens
SyncFailed(pl) ==
  /\ UNCHANGED <<liveOffset, isSynced>>
  /\ SetPlayer(pl)

\* ------------------------------------------------------------ server-time
OffsetOfNoLatency(serverTime, startTime, endTime) == 2 * serverTime - 2 * startTime

\* serverTime - (startTime + latency) with latency = (endTime - startTime) / 2,
\* in half milliseconds
OffsetOf(serverTime, startTime, endTime) ==
  2 * serverTime - (2 * startTime + (endTime - startTime))

CatchResultNoFallback(t) == Settled("rejected", "error", 0)

\* catch block of getServerTime: the cached offset, if any, is the fallback
CatchResult(t) ==
  IF serverTimeOffset # Null
  THEN Settled("resolved", "fallback", NewDate(2 * t + Val(serverTimeOffset)))
  ELSE Settled("rejected", "error", 0)

CacheValidInclusive(now) ==
  serverTimeOffset # Null /\ (now - lastSyncTime) <= OFFSET_CACHE_DURATION_MS

\* the cache check of getServerTime
CacheValid(now) ==
  serverTimeOffset # Null /\ (now - lastSyncTime) < OFFSET_CACHE_DURATION_MS

NewCall(t, st) ==
  [pc |-> "addDoc", startTime |-> t, timestamp |-> 0,
   scheduledStart |-> st, alive |-> TRUE]

\* sync() of the effect run with scheduledStart st: getServerTime() either
\* answers from the cache or starts a round trip
Sync(t, cs, st, pl, face, bl) ==
  IF CacheValid(t)
  THEN /\ calls' = cs
       /\ lastResult' = Settled("resolved", "cache", NewDate(2 * t + Val(serverTimeOffset)))
       /\ Resolved(t, lastResult'.value, [scheduledStart |-> st, alive |-> TRUE], TRUE, pl, face, bl)
       /\ UNCHANGED roundTrips
  ELSE /\ Len(cs) < MaxCalls /\ roundTrips < MaxRoundTrips
       /\ calls' = Append(cs, NewCall(t, st))
       /\ roundTrips' = roundTrips + 1
       /\ UNCHANGED <<lastResult, liveOffset, isSynced>>
       /\ SetPlayer(pl)

Remove(cs, i) == SubSeq(cs, 1, i - 1) \o SubSeq(cs, i + 1, Len(cs))

\* ----------------------------------------------------------------- timers
Deadlines == {Val(x) : x \in {hookDeadline, playerDeadline} \ {Null}}
BeforeDeadlines(t) == \A x \in Deadlines : t <= x

\* ---------------------------------------------------------------- actions
MountArmsCorrection(p, bl) ==
  /\ ~mounted /\ renders < MaxRenders
  /\ renders' = renders + 1
  /\ mounted' = TRUE
  /\ props' = p
  /\ blocked' = bl
  /\ isMounted' = TRUE
  /\ hookDeadline' = Some(clock + RESYNC_INTERVAL_MS)
  /\ Sync(clock, calls, p.scheduledStart,
          Player(Some(clock + SYNC_INTERVAL_MS), refs, currentTime, paused), p.faceUrl, bl)
  /\ cleaned' = NotCleaned
  /\ UNCHANGED <<clock, skew, serverTimeOffset, lastSyncTime, watched, lastTick>>

\* DualVideoPlayer is mounted with session p: first render (isSynced is
\* false, no stream is rendered), then the hook's effect runs
Mount(p, bl) ==
  /\ ~mounted /\ renders < MaxRenders
  /\ renders' = renders + 1
  /\ mounted' = TRUE
  /\ props' = p
  /\ blocked' = bl
  /\ isMounted' = TRUE
  /\ hookDeadline' = Some(clock + RESYNC_INTERVAL_MS)
  /\ Sync(clock, calls, p.scheduledStart, PlayerNow(currentTime), p.faceUrl, bl)
  /\ cleaned' = NotCleaned
  /\ UNCHANGED <<clock, skew, serverTimeOffset, lastSyncTime, watched, lastTick>>

\* the session prop changes: re-render, cleanup of the hook's effect
\* (isMounted.current = false, clearInterval), then the effect runs again
PropsChange(p) ==
  /\ mounted /\ renders < MaxRenders
  /\ renders' = renders + 1
  /\ p # props
  /\ props' = p
  /\ isMounted' = TRUE
  /\ hookDeadline' = Some(clock + RESYNC_INTERVAL_MS)
  /\ Sync(clock, calls, p.scheduledStart,
          Rendered(clock, PlayerNow(currentTime), isSynced, liveOffset,
                   isSynced, liveOffset, p.faceUrl, blocked),
          p.faceUrl, blocked)
  /\ UNCHANGED <<clock, skew, serverTimeOffset, lastSyncTime, watched, mounted,
                 blocked, lastTick, cleaned>>

\* the operation of cleanupPlayer that throws, if any
CleanupThrows == {"none", "pause", "setAttribute", "load"}
NoThrow == [s \in Streams |-> "none"]

\* cleanupPlayer(ref.current) of the unmount cleanup (lines 89-106): the
\* operations that complete; an exception ends the cleanup of that stream
CleanupPlayer(player, th) ==
  IF ~player THEN <<>>
  ELSE CASE th = "pause" -> <<>>
         [] th = "setAttribute" -> <<"pause">>
         [] th = "load" -> <<"pause", "setAttribute">>
         [] OTHER -> <<"pause", "setAttribute", "load">>

\* unmount: every effect is cleaned up and the instance is discarded.
\* detached: the refs of the removed players were already set to null when
\* the effect cleanups run (React detaches the refs of a deleted subtree in
\* the commit, the cleanups of useEffect run after it)
Unmount(detached, th) ==
  /\ mounted
  /\ mounted' = FALSE
  /\ isMounted' = FALSE
  /\ hookDeadline' = Null
  /\ liveOffset' = 0
  /\ isSynced' = FALSE
  /\ cleaned' = [s \in Streams |-> CleanupPlayer(refs[s] /\ ~detached, th[s])]
  /\ SetPlayer(Player(Null, [s \in Streams |-> FALSE],
                      [s \in Streams |-> 0], [s \in Streams |-> TRUE]))
  /\ blocked' = NoBlock
  /\ lastTick' = NoTick
  /\ calls' = [i \in 1..Len(calls) |-> [calls[i] EXCEPT !.alive = FALSE]]
  /\ UNCHANGED <<clock, skew, serverTimeOffset, lastSyncTime, lastResult,
                 roundTrips, watched, renders, props>>

\* d milliseconds pass (no timer is due before), then addDoc resolves: the
\* marker carries the server's timestamp
AddDocOk(i, d, c) ==
  /\ i \in 1..Len(calls) /\ calls[i].pc = "addDoc"
  /\ clock + d <= MaxClock /\ BeforeDeadlines(clock + d)
  /\ clock' = clock + d
  /\ currentTime' = Progressed(d, c)
  /\ calls' = [calls EXCEPT ![i].pc = "getDoc", ![i].timestamp = clock + d + skew]
  /\ UNCHANGED <<skew, serverTimeOffset, lastSyncTime, lastResult, roundTrips, watched, renders,
                 hookVars, playerDeadline, refs, paused, blocked, lastTick, cleaned>>

\* getDoc resolves with the marker: the offset is computed and cached, the
\* call resolves with timestamp.toDate()
GetDocOk(i, d, c) ==
  /\ i \in 1..Len(calls) /\ calls[i].pc = "getDoc"
  /\ clock + d <= MaxClock /\ BeforeDeadlines(clock + d)
  /\ LET endTime == clock + d
         startTime == calls[i].startTime
         serverTime == calls[i].timestamp
     IN /\ clock' = endTime
        /\ serverTimeOffset' = Some(OffsetOf(serverTime, startTime, endTime))
        /\ lastSyncTime' = endTime
        /\ lastResult' = Settled("resolved", "fresh", serverTime)
        /\ calls' = Remove(calls, i)
        /\ Resolved(endTime, serverTime, calls[i], isMounted,
                    PlayerNow(Progressed(d, c)), props.faceUrl, blocked)
  /\ UNCHANGED <<skew, roundTrips, watched, renders, mounted, props, isMounted, hookDeadline,
                 blocked, lastTick, cleaned>>

\* catch block of getServerTime, then the rest of sync()
Catch(i, t, pl) ==
  /\ clock' = t
  /\ calls' = Remove(calls, i)
  /\ lastResult' = CatchResult(t)
  /\ IF lastResult'.kind = "resolved"
     THEN Resolved(t, lastResult'.value, calls[i], isMounted, pl, props.faceUrl, blocked)
     ELSE SyncFailed(pl)
  /\ UNCHANGED <<skew, serverTimeOffset, lastSyncTime, roundTrips, watched, renders, mounted,
                 props, isMounted, hookDeadline, blocked, lastTick, cleaned>>

AddDocFail(i, d, c) ==
  /\ i \in 1..Len(calls) /\ calls[i].pc = "addDoc"
  /\ clock + d <= MaxClock /\ BeforeDeadlines(clock + d)
  /\ Catch(i, clock + d, PlayerNow(Progressed(d, c)))

GetDocFail(i, d, c) ==
  /\ i \in 1..Len(calls) /\ calls[i].pc = "getDoc"
  /\ clock + d <= MaxClock /\ BeforeDeadlines(clock + d)
  /\ Catch(i, clock + d, PlayerNow(Progressed(d, c)))

\* docSnap.exists() is false: 'Failed to read server time document'
GetDocMissing(i, d, c) ==
  /\ i \in 1..Len(calls) /\ calls[i].pc = "getDoc"
  /\ clock + d <= MaxClock /\ BeforeDeadlines(clock + d)
  /\ Catch(i, clock + d, PlayerNow(Progressed(d, c)))

\* time passes up to the next timer deadline (a store operation answers
\* within the latencies above, so none is pending)
WaitTimer(c) ==
  /\ Deadlines # {} /\ calls = <<>>
  /\ LET t == CHOOSE x \in Deadlines : \A y \in Deadlines : x <= y
     IN /\ t > clock /\ t <= MaxClock /\ watched + (t - clock) <= MaxWatch
        /\ clock' = t
        /\ watched' = watched + (t - clock)
        /\ UNCHANGED renders
        /\ currentTime' = Progressed(t - clock, c)
  /\ UNCHANGED <<skew, serverTimeOffset, lastSyncTime, calls, lastResult, roundTrips,
                 hookVars, playerDeadline, refs, paused, blocked, lastTick, cleaned>>

\* time passes while the player is not on screen
Idle(d) ==
  /\ ~mounted /\ calls = <<>>
  /\ clock + d <= MaxClock
  /\ clock' = clock + d
  /\ UNCHANGED <<skew, serverTimeOffset, lastSyncTime, calls, lastResult, roundTrips,
                 watched, renders, hookVars, playerVars>>

\* setInterval(sync, 30000) fires
HookTick ==
  /\ hookDeadline = Some(clock)
  /\ hookDeadline' = Some(clock + RESYNC_INTERVAL_MS)
  /\ Sync(clock, calls, props.scheduledStart, PlayerNow(currentTime), props.faceUrl, blocked)
  /\ UNCHANGED <<clock, skew, serverTimeOffset, lastSyncTime, watched, renders, mounted,
                 props, isMounted, blocked, lastTick, cleaned>>

SyncPlayerAtThreshold(s) ==
  LET drift == Abs(currentTime[s] - liveOffset)
      seek == refs[s] /\ drift >= DRIFT_THRESHOLD_SECONDS
      play == refs[s] /\ paused[s]
  IN [currentTime |-> IF seek THEN liveOffset ELSE currentTime[s],
      paused |-> IF play THEN blocked[s] ELSE paused[s],
      seeked |-> seek, played |-> play]

SyncPlayerPlayUnlessSeeked(s) ==
  LET drift == Abs(currentTime[s] - liveOffset)
      seek == refs[s] /\ drift > DRIFT_THRESHOLD_SECONDS
      play == refs[s] /\ paused[s] /\ ~seek
  IN [currentTime |-> IF seek THEN liveOffset ELSE currentTime[s],
      paused |-> IF play THEN blocked[s] ELSE paused[s],
      seeked |-> seek, played |-> play]

SyncPlayerSkipsBlocked(s) ==
  LET drift == Abs(currentTime[s] - liveOffset)
      seek == refs[s] /\ drift > DRIFT_THRESHOLD_SECONDS
      play == refs[s] /\ paused[s] /\ ~blocked[s]
  IN [currentTime |-> IF seek THEN liveOffset ELSE currentTime[s],
      paused |-> IF play THEN FALSE ELSE paused[s],
      seeked |-> seek, played |-> play]

\* syncPlayer(player) of the correction interval
SyncPlayer(s) ==
  LET drift == Abs(currentTime[s] - liveOffset)
      seek == refs[s] /\ drift > DRIFT_THRESHOLD_SECONDS
      play == refs[s] /\ paused[s]
  IN [currentTime |-> IF seek THEN liveOffset ELSE currentTime[s],
      paused |-> IF play THEN blocked[s] ELSE paused[s],
      seeked |-> seek, played |-> play]

PlayerTickPerStreamOffset ==
  /\ playerDeadline = Some(clock)
  /\ LET target(s) == IF s = "main" THEN liveOffset ELSE liveOffset + 1
         seek(s) == refs[s] /\ Abs(currentTime[s] - target(s)) > DRIFT_THRESHOLD_SECONDS
         play(s) == refs[s] /\ paused[s] IN
       /\ currentTime' = [s \in Streams |-> IF seek(s) THEN target(s) ELSE currentTime[s]]
       /\ paused' = [s \in Streams |-> IF play(s) THEN blocked[s] ELSE paused[s]]
       /\ lastTick' = [n |-> 1 - lastTick.n,
                       seeked |-> [s \in Streams |-> seek(s)],
                       played |-> [s \in Streams |-> play(s)]]
  /\ playerDeadline' = Some(clock + SYNC_INTERVAL_MS)
  /\ UNCHANGED <<clockVars, hookVars, refs, blocked, cleaned>>

\* the correction interval fires: main, then face
PlayerTick ==
  /\ playerDeadline = Some(clock)
  /\ LET r == [s \in Streams |-> SyncPlayer(s)] IN
       /\ currentTime' = [s \in Streams |-> r[s].currentTime]
       /\ paused' = [s \in Streams |-> r[s].paused]
       /\ lastTick' = [n |-> 1 - lastTick.n,
                       seeked |-> [s \in Streams |-> r[s].seeked],
                       played |-> [s \in Streams |-> r[s].played]]
  /\ playerDeadline' = Some(clock + SYNC_INTERVAL_MS)
  /\ UNCHANGED <<clockVars, hookVars, refs, blocked, cleaned>>

\* the correction interval fires and syncPlayer of stream x throws (no
\* try/catch in syncPlayer or in the interval callback): at = "currentTime",
\* reading the position throws; at = "play", play() throws after the drift
\* branch.  The exception leaves the callback: what follows is not run
PlayerTickThrows(x, at) ==
  /\ playerDeadline = Some(clock)
  /\ refs[x]
  /\ at = "play" => paused[x]
  /\ LET done(s) == s = "main" /\ x = "face"
         r == [s \in Streams |->
                 IF done(s) THEN SyncPlayer(s)
                 ELSE IF s = x /\ at = "play"
                      THEN [SyncPlayer(s) EXCEPT !.paused = paused[s], !.played = FALSE]
                      ELSE [currentTime |-> currentTime[s], paused |-> paused[s],
                            seeked |-> FALSE, played |-> FALSE]] IN
       /\ currentTime' = [s \in Streams |-> r[s].currentTime]
       /\ paused' = [s \in Streams |-> r[s].paused]
       /\ lastTick' = [n |-> 1 - lastTick.n,
                       seeked |-> [s \in Streams |-> r[s].seeked],
                       played |-> [s \in Streams |-> r[s].played]]
  /\ playerDeadline' = Some(clock + SYNC_INTERVAL_MS)
  /\ UNCHANGED <<clockVars, hookVars, refs, blocked, cleaned>>

\* a user gesture on the page lifts the autoplay block
UserGesture ==
  /\ mounted
  /\ blocked # NoBlock
  /\ blocked' = NoBlock
  /\ UNCHANGED <<clockVars, hookVars, playerDeadline, refs, currentTime, paused, lastTick, cleaned>>

\* ========================================================= useSessionState
\* bounds of the session model: the wall clock runs to MaxNow in steps of
\* NowStep milliseconds
MaxNow == 3000
NowStep == 500

\* An ISO date string: sec = seconds, ms = the milliseconds field
Iso(sec, ms) == [sec |-> sec, ms |-> ms]
\* new Date(text).getTime()
ParseDate(text) == text.sec * 1000 + text.ms
\* new Date(millis).toISOString()
ToISOString(millis) == Iso(millis \div 1000, millis % 1000)

SessionIds == {"", "s1", "s2"}
\* the session documents the store may deliver
SessionDocs ==
  [isLive : BOOLEAN,
   scheduledStart : {Iso(0, 500), Iso(1, 0), Iso(2, 0)},
   scheduledEnd : {Iso(1, 500), Iso(2, 500)}]

VARIABLES
  wallClock,     \* new Date() of the client, in milliseconds
  sessionId,     \* argument of useSessionState
  session,       \* Null or Some(document)
  sessionState, loading, error,
  snapshotAt     \* "now" read by the latest snapshot of an existing document

sessionVars == <<wallClock, sessionId, session, sessionState, loading, error, snapshotAt>>

\* useSessionState("s1"): the state after the first render and its effect
SessionInit ==
  /\ wallClock = 0
  /\ sessionId = "s1"
  /\ session = Null
  /\ sessionState = "scheduled"
  /\ loading = (sessionId # "")
  /\ error = FALSE
  /\ snapshotAt = 0

NewStateTimeFirst(sessionData, now) ==
  IF ParseDate(sessionData.scheduledStart) > now THEN "scheduled"
  ELSE IF sessionData.isLive THEN "live"
  ELSE "ended"

NewStateInclusive(sessionData, now) ==
  IF sessionData.isLive THEN "live"
  ELSE IF ParseDate(sessionData.scheduledStart) >= now THEN "scheduled"
  ELSE "ended"

\* lines 52-59 of the snapshot handler
NewState(sessionData, now) ==
  IF sessionData.isLive THEN "live"
  ELSE IF ParseDate(sessionData.scheduledStart) > now THEN "scheduled"
  ELSE "ended"

\* onSnapshot success callback with an existing document
SnapshotExists(doc) ==
  /\ sessionId # ""
  /\ session' = Some(doc)
  /\ snapshotAt' = wallClock
  /\ sessionState' = NewState(doc, wallClock)
  /\ loading' = FALSE
  /\ error' = FALSE
  /\ UNCHANGED <<wallClock, sessionId>>

\* onSnapshot success callback, the document does not exist
SnapshotMissing ==
  /\ sessionId # ""
  /\ session' = Null
  /\ sessionState' = "ended"
  /\ loading' = FALSE
  /\ error' = FALSE
  /\ UNCHANGED <<wallClock, sessionId, snapshotAt>>

\* an error callback that also drops what the hook showed
SnapshotErrorResetsSession ==
  /\ sessionId # ""
  /\ error' = TRUE
  /\ loading' = FALSE
  /\ session' = Null
  /\ sessionState' = "ended"
  /\ UNCHANGED <<wallClock, sessionId, snapshotAt>>

\* onSnapshot error callback
SnapshotError ==
  /\ sessionId # ""
  /\ error' = TRUE
  /\ loading' = FALSE
  /\ UNCHANGED <<wallClock, sessionId, session, sessionState, snapshotAt>>

\* the hook is re-rendered with another id: the effect runs again
SessionIdChange(id) ==
  /\ id # sessionId
  /\ sessionId' = id
  /\ IF id = ""
     THEN loading' = FALSE /\ UNCHANGED error
     ELSE error' = FALSE /\ UNCHANGED loading
  /\ UNCHANGED <<wallClock, session, sessionState, snapshotAt>>

TimePasses ==
  /\ wallClock + NowStep <= MaxNow
  /\ wallClock' = wallClock + NowStep
  /\ UNCHANGED <<sessionId, session, sessionState, loading, error, snapshotAt>>

SessionNext ==
  \/ \E doc \in SessionDocs : SnapshotExists(doc)
  \/ SnapshotMissing
  \/ SnapshotError
  \/ \E id \in SessionIds : SessionIdChange(id)
  \/ TimePasses

\* ---------------------------------------------------------- CountdownScreen
\* SessionPage renders CountdownScreen while the hook reports 'scheduled'. Its
\* scheduledStart prop is a new Date object in every render, so every render
\* runs the effect again: it recomputes the remaining time and sets the 1 s
\* interval unless the countdown is at zero. The period of the interval is
\* not modelled: a tick may fire at any time while the interval is set.

VARIABLES
  timeRemaining, \* the remaining time shown, in whole seconds
  ticking        \* the interval of CountdownScreen is set

countdownVars == <<timeRemaining, ticking>>

CountdownInit ==
  /\ timeRemaining = 0
  /\ ticking = FALSE

\* calculateTimeRemaining: days, hours, minutes and seconds as one number
TimeRemaining(difference) ==
  IF difference <= 0 THEN 0 ELSE difference \div 1000

\* the render of SessionPage that follows a step of the hook
CountdownRender ==
  IF sessionState' = "scheduled" /\ session' # Null
    THEN LET difference == ParseDate(Val(session').scheduledStart) - wallClock' IN
         /\ timeRemaining' = TimeRemaining(difference)
         /\ ticking' = (difference > 0)
    ELSE /\ timeRemaining' = 0
         /\ ticking' = FALSE

\* the interval callback of CountdownScreen
CountdownTick ==
  LET difference == ParseDate(Val(session).scheduledStart) - wallClock IN
  /\ ticking
  /\ timeRemaining' = TimeRemaining(difference)
  /\ ticking' = (difference > 0)
  /\ UNCHANGED sessionVars

SessionLiveNext ==
  \/ \E doc \in SessionDocs : SnapshotExists(doc) /\ CountdownRender
  \/ SnapshotMissing /\ CountdownRender
  \/ SnapshotError /\ CountdownRender
  \/ \E id \in SessionIds : SessionIdChange(id) /\ CountdownRender
  \/ TimePasses /\ UNCHANGED countdownVars
  \/ CountdownTick

\* ================================================================= useChat
\* bounds of the chat model
MaxWindow == 2
MaxChatNow == 4000
\* loadMoreMessages calls in flight at once, and in all
MaxFetches == 2
MaxLoads == 2

\* the ids useChat is rendered with
ChatSessionIds == {"s1", "s2"}
MessageIds == {"m0", "m1", "m2", "m3", "n1"}
\* createdAt of a stored message in milliseconds; Null while the server
\* timestamp of a local write is still pending
CreatedAts == {Null, Some(500), Some(1000), Some(2000), Some(2500), Some(3500)}
\* where('sessionId', '==', sessionId): the session a document belongs to
SessionOf(id) == IF id = "n1" THEN "s2" ELSE "s1"
\* the server timestamp of a message once it is committed
CommittedAt(id) ==
  CASE id = "m0" -> Some(500)
    [] id = "m1" -> Some(1000)
    [] id = "m2" -> Some(2000)
    [] id = "m3" -> Some(3500)
    [] id = "n1" -> Some(2500)
\* a message document; v stands for the payload (content, isPinned,
\* isDeleted), which changes for m1 only; m3 is the message whose write may
\* still be pending
MessageDocs ==
  {doc \in [id : MessageIds, sessionId : {"s1", "s2"}, createdAt : CreatedAts, v : {0, 1}] :
     /\ doc.v = 0 \/ doc.id = "m1"
     /\ doc.sessionId = SessionOf(doc.id)
     /\ doc.createdAt = CommittedAt(doc.id) \/ (doc.id = "m3" /\ doc.createdAt = Null)}

\* createdAt as the desc query orders it: a pending timestamp sorts newest
OrderKey(doc) == IF doc.createdAt = Null THEN MaxChatNow + 1 ELSE Val(doc.createdAt)

\* a snapshot of a query: at most MaxWindow documents, no id twice,
\* newest first
Windows ==
  {w \in UNION {[1..n -> MessageDocs] : n \in 0..MaxWindow} :
     /\ \A i, j \in 1..Len(w) : i # j => w[i].id # w[j].id
     /\ \A i \in 1..(Len(w) - 1) : OrderKey(w[i]) >= OrderKey(w[i + 1])}

\* The messages collection as the queries may find it: m0, m1 and m2 were
\* written to session s1 before the hook was mounted, m3 is being written
\* to it, n1 may have been written to session s2; messages are never removed
Collections ==
  {docs \in SUBSET MessageDocs :
     /\ \A d, e \in docs : d.id = e.id => d = e
     /\ \A id \in {"m0", "m1", "m2"} : \E d \in docs : d.id = id}

\* the result of a desc query with limit(MaxWindow) over the documents ds
Newest(ds) ==
  CHOOSE w \in Windows :
    /\ \A i \in 1..Len(w) : w[i] \in ds
    /\ Len(w) = Min(MaxWindow, Cardinality(ds))
    /\ \A d \in ds : (\A i \in 1..Len(w) : w[i] # d) =>
         \A i \in 1..Len(w) : OrderKey(d) < OrderKey(w[i])

\* the values new Date() takes, and the values of new Date(createdAt)
ChatNows == {3000 + 1000 * k : k \in 0..((MaxChatNow - 3000) \div 1000)}
Cursors == {Val(c) : c \in CreatedAts \ {Null}} \cup ChatNows

\* query(where sessionId, orderBy createdAt desc, limit) (lines 48-53)
WindowTable ==
  [sid \in ChatSessionIds |->
     {Newest({d \in docs : d.sessionId = sid}) : docs \in Collections}]

WindowsOf(sid) == WindowTable[sid]

\* ... with startAfter(new Date(oldestMessage.createdAt)) (lines 202-213): the
\* documents of a page are committed and strictly older than the cursor
PageTable ==
  [sid \in ChatSessionIds, cursor \in Cursors |->
     {Newest({d \in docs : d.sessionId = sid /\ d.createdAt # Null /\ OrderKey(d) < cursor}) :
        docs \in Collections}]

Pages(sid, cursor) == PageTable[sid, cursor]

VARIABLES
  chatNow,       \* new Date() of the client, in milliseconds
  chatSessionId, \* argument of useChat
  messages,      \* the merged list (state of useChat)
  chatLoading,
  window,        \* newMessages of the snapshot callback that ran last, if no
                 \* other handler ran since
  lastPush,      \* what that callback did to the list held before it
  fetches,       \* loadMoreMessages calls awaiting getDocs
  loads,         \* loadMoreMessages calls so far
  toast          \* message of the toast.error of the handler that ran last

chatVars == <<chatNow, chatSessionId, messages, chatLoading, window, lastPush, fetches, loads, toast>>

NoPush == [pushed |-> FALSE, replaced |-> {}, kept |-> 0, dropped |-> {}]

NoToast == "none"

\* useChat("s1"): the state after the first render and its effect
ChatInit ==
  /\ chatNow = 3000
  /\ chatSessionId = "s1"
  /\ messages = <<>>
  /\ chatLoading = TRUE
  /\ window = <<>>
  /\ lastPush = NoPush
  /\ fetches = <<>>
  /\ loads = 0
  /\ toast = NoToast

\* snapshot.docs.map(...): createdAt becomes an ISO string
ToMessage(doc, now) ==
  [id |-> doc.id, sessionId |-> doc.sessionId, v |-> doc.v,
   createdAt |-> IF doc.createdAt = Null THEN ToISOString(now)
                 ELSE ToISOString(Val(doc.createdAt))]

ToMessages(docs, now) == [i \in 1..Len(docs) |-> ToMessage(docs[i], now)]

SelectSeq2(sq, Keep(_)) ==
  LET F[i \in 0..Len(sq)] ==
        IF i = 0 THEN <<>>
        ELSE IF Keep(sq[i]) THEN Append(F[i - 1], sq[i]) ELSE F[i - 1]
  IN F[Len(sq)]

MergeMessagesNoGuard(newMessages, prevMessages) ==
  IF Len(newMessages) = 0 THEN newMessages
  ELSE LET oldestLiveTime == ParseDate(newMessages[Len(newMessages)].createdAt)
           keep(msg) ==
             /\ ParseDate(msg.createdAt) < oldestLiveTime
             /\ ~\E k \in 1..Len(newMessages) : newMessages[k].id = msg.id
       IN newMessages \o SelectSeq2(prevMessages, keep)

MergeMessagesInclusive(newMessages, prevMessages) ==
  IF Len(newMessages) = 0 THEN prevMessages
  ELSE LET oldestLiveTime == ParseDate(newMessages[Len(newMessages)].createdAt)
           keep(msg) == ParseDate(msg.createdAt) <= oldestLiveTime
       IN newMessages \o SelectSeq2(prevMessages, keep)

MergeMessagesByIdOnly(newMessages, prevMessages) ==
  IF Len(newMessages) = 0 THEN prevMessages
  ELSE LET keep(msg) == ~\E k \in 1..Len(newMessages) : newMessages[k].id = msg.id
       IN newMessages \o SelectSeq2(prevMessages, keep)

MergeMessagesPrevWins(newMessages, prevMessages) ==
  IF Len(newMessages) = 0 THEN prevMessages
  ELSE LET fresh(msg) == ~\E j \in 1..Len(prevMessages) : prevMessages[j].id = msg.id
       IN SelectSeq2(newMessages, fresh) \o prevMessages

\* the updater passed to setMessages (lines 70-90)
MergeMessages(newMessages, prevMessages) ==
  IF Len(newMessages) = 0 THEN prevMessages
  ELSE LET oldestLiveMessage == newMessages[Len(newMessages)]
           oldestLiveTime == ParseDate(oldestLiveMessage.createdAt)
           keep(msg) ==
             /\ ParseDate(msg.createdAt) < oldestLiveTime
             /\ ~\E k \in 1..Len(newMessages) : newMessages[k].id = msg.id
       IN newMessages \o SelectSeq2(prevMessages, keep)

\* the ids a push found in the list with another payload or createdAt, the
\* number of records it kept as history, and the ids it dropped (held
\* before, not in the window, not in the list afterwards)
PushLog(newMessages, prevMessages, merged) ==
  [pushed |-> TRUE,
   replaced |-> {newMessages[k].id : k \in
                   {k \in 1..Len(newMessages) :
                      \E j \in 1..Len(prevMessages) :
                        /\ prevMessages[j].id = newMessages[k].id
                        /\ prevMessages[j] # newMessages[k]}},
   kept |-> IF Len(newMessages) = 0 THEN 0 ELSE Len(merged) - Len(newMessages),
   dropped |-> {prevMessages[j].id : j \in 1..Len(prevMessages)}
                 \ {merged[j].id : j \in 1..Len(merged)}]

\* onSnapshot success callback of the chat query
ApplyWindow(w) ==
  LET newMessages == ToMessages(w, chatNow) IN
  /\ w \in WindowsOf(chatSessionId)
  /\ window' = newMessages
  /\ messages' = MergeMessages(newMessages, messages)
  /\ lastPush' = PushLog(newMessages, messages, messages')
  /\ chatLoading' = FALSE
  /\ toast' = NoToast
  /\ UNCHANGED <<chatNow, chatSessionId, fetches, loads>>

ChatErrorClearsList ==
  /\ chatLoading' = FALSE
  /\ messages' = <<>>
  /\ window' = <<>> /\ lastPush' = NoPush
  /\ toast' = "Failed to load chat messages"
  /\ UNCHANGED <<chatNow, chatSessionId, fetches, loads>>

\* onSnapshot error callback of the chat query
ChatError ==
  /\ chatLoading' = FALSE
  /\ window' = <<>> /\ lastPush' = NoPush
  /\ toast' = "Failed to load chat messages"
  /\ UNCHANGED <<chatNow, chatSessionId, messages, fetches, loads>>

\* useChat is rendered with another sessionId: the effect unsubscribes and
\* runs again; the list is kept
ChatSessionChange(id) ==
  /\ id # chatSessionId
  /\ chatSessionId' = id
  /\ chatLoading' = TRUE
  /\ window' = <<>> /\ lastPush' = NoPush /\ toast' = NoToast
  /\ UNCHANGED <<chatNow, messages, fetches, loads>>

\* loadMoreMessages up to its await: the cursor is the createdAt of the last
\* element of the list of this render
LoadMore ==
  /\ Len(messages) # 0
  /\ Len(fetches) < MaxFetches /\ loads < MaxLoads
  /\ fetches' = Append(fetches,
        [sessionId |-> chatSessionId,
         cursor |-> ParseDate(messages[Len(messages)].createdAt)])
  /\ loads' = loads + 1
  /\ window' = <<>> /\ lastPush' = NoPush /\ toast' = NoToast
  /\ UNCHANGED <<chatNow, chatSessionId, messages, chatLoading>>

RemoveFetch(i) == [k \in 1..(Len(fetches) - 1) |-> IF k < i THEN fetches[k] ELSE fetches[k + 1]]

ExtendHistoryGuarded(sid, fetch, prev, olderMessages) ==
  IF fetch.sessionId = sid THEN prev \o olderMessages ELSE prev

\* setMessages(prev => [...prev, ...olderMessages]) (line 230)
ExtendHistory(sid, fetch, prev, olderMessages) == prev \o olderMessages

\* getDocs of fetch i resolves with a page
LoadMoreDone(i, page) ==
  /\ i \in 1..Len(fetches)
  /\ page \in Windows
  /\ page \in Pages(fetches[i].sessionId, fetches[i].cursor)
  /\ fetches' = RemoveFetch(i)
  /\ messages' =
       IF page = <<>> THEN messages
       ELSE ExtendHistory(chatSessionId, fetches[i], messages, ToMessages(page, chatNow))
  /\ window' = <<>> /\ lastPush' = NoPush /\ toast' = NoToast
  /\ UNCHANGED <<chatNow, chatSessionId, chatLoading, loads>>

\* getDocs of fetch i rejects
LoadMoreFail(i) ==
  /\ i \in 1..Len(fetches)
  /\ fetches' = RemoveFetch(i)
  /\ window' = <<>> /\ lastPush' = NoPush
  /\ toast' = "Failed to load older messages"
  /\ UNCHANGED <<chatNow, chatSessionId, messages, chatLoading, loads>>

ChatTimePasses ==
  /\ chatNow + 1000 <= MaxChatNow
  /\ chatNow' = chatNow + 1000
  /\ window' = <<>> /\ lastPush' = NoPush /\ toast' = NoToast
  /\ UNCHANGED <<chatSessionId, messages, chatLoading, fetches, loads>>

ChatNext ==
  \/ \E w \in Windows : ApplyWindow(w)
  \/ ChatError
  \/ \E id \in ChatSessionIds : ChatSessionChange(id)
  \/ LoadMore
  \/ \E i \in 1..MaxFetches, page \in Windows : LoadMoreDone(i, page)
  \/ \E i \in 1..MaxFetches : LoadMoreFail(i)
  \/ ChatTimePasses

\* ============================================================= sendMessage
\* The rate limit of useChat's sendMessage. The time of the last accepted send
\* is React state: a sendMessage function sees the value of the render that
\* created it, and setLastMessageTime takes effect at the next render.

MaxSendNow == 22000
MaxSends == 3
SendSteps == {2999, 3000}

RATE_LIMIT_MS == 6000
MAX_CONTENT_LENGTH == 500

Spaces(n) == [i \in 1..n |-> " "]
Letters(n) == [i \in 1..n |-> "a"]

\* the content argument: a string as the sequence of its characters
Contents ==
  {Spaces(0), Spaces(1), Letters(2), Spaces(1) \o Letters(2) \o Spaces(2),
   Letters(MAX_CONTENT_LENGTH), Spaces(1) \o Letters(MAX_CONTENT_LENGTH + 1)}

RECURSIVE TrimStart(_)
TrimStart(str) ==
  IF str # <<>> /\ Head(str) = " " THEN TrimStart(Tail(str)) ELSE str

RECURSIVE TrimEnd(_)
TrimEnd(str) ==
  IF str # <<>> /\ str[Len(str)] = " "
    THEN TrimEnd(SubSeq(str, 1, Len(str) - 1)) ELSE str

\* String.prototype.trim
Trim(str) == TrimEnd(TrimStart(str))

VARIABLES
  sendNow,          \* Date.now() of the client
  lastMessageTime,  \* the React state, as of the last setLastMessageTime
  renderedTime,     \* lastMessageTime as seen by the sendMessage of the
                    \* current render
  written,          \* Date.now() of every call that reached addDoc
  sendOutcome       \* how the sendMessage call that ran last ended

sendVars == <<sendNow, lastMessageTime, renderedTime, written, sendOutcome>>

SendInit ==
  /\ sendNow = 10000
  /\ lastMessageTime = 0
  /\ renderedTime = 0
  /\ written = <<>>
  /\ sendOutcome = "none"

\* one call of sendMessage(content) of the current render; user is useAuth's
\* user, addDocOk whether the awaited addDoc resolves
SendMessage(user, content, addDocOk) ==
  LET now == sendNow
      trimmedContent == Trim(content)
  IN
  /\ Len(written) < MaxSends
  /\ IF ~user
       THEN /\ sendOutcome' = "not logged in"
            /\ UNCHANGED <<lastMessageTime, written>>
     ELSE IF now - renderedTime < RATE_LIMIT_MS
       THEN /\ sendOutcome' = "Rate limited"
            /\ UNCHANGED <<lastMessageTime, written>>
     ELSE IF trimmedContent = <<>>
       THEN /\ sendOutcome' = "empty"
            /\ UNCHANGED <<lastMessageTime, written>>
     ELSE IF Len(trimmedContent) > MAX_CONTENT_LENGTH
       THEN /\ sendOutcome' = "too long"
            /\ UNCHANGED <<lastMessageTime, written>>
     ELSE /\ lastMessageTime' = now
          /\ written' = Append(written, now)
          /\ sendOutcome' = IF addDocOk THEN "sent" ELSE "failed"
  /\ UNCHANGED <<sendNow, renderedTime>>

\* React renders useChat again after setLastMessageTime: the callers get a
\* sendMessage that sees the new state
SendRender ==
  /\ renderedTime # lastMessageTime
  /\ renderedTime' = lastMessageTime
  /\ sendOutcome' = "none"
  /\ UNCHANGED <<sendNow, lastMessageTime, written>>

SendTimePasses(d) ==
  /\ sendNow + d <= MaxSendNow
  /\ sendNow' = sendNow + d
  /\ sendOutcome' = "none"
  /\ UNCHANGED <<lastMessageTime, renderedTime, written>>

SendNext ==
  \/ \E user \in BOOLEAN, content \in Contents, addDocOk \in BOOLEAN :
       SendMessage(user, content, addDocOk)
  \/ SendRender
  \/ \E d \in SendSteps : SendTimePasses(d)

\* ======================================================= useViewerTracking
\* The effect keyed on [sessionId, userId] creates a viewer_sessions record
\* with addDoc and keeps its id in viewerSessionIdRef; its cleanup writes
\* leftAt of the record whose id the ref holds at that time.

\* effect runs and records that a run follows
MaxRuns == 3

ViewerSessionIds == {"", "s1", "s2"}
ViewerUserIds == {"", "u1"}
ViewerProps == [sessionId : ViewerSessionIds, userId : ViewerUserIds]

VARIABLES
  viewerMounted,       \* a component that uses the hook is mounted
  viewerProps,         \* the hook's arguments
  viewerRuns,          \* runs of the effect so far; the latest is the current one
  viewerFirstRun,      \* the first run of the mounted component
  viewerSessionIdRef,  \* Null or Some(id of a viewer_sessions record)
  creating,            \* addDoc calls in flight, by the run that made them
  viewerSessions       \* the viewer_sessions records, the id is the position

viewerVars ==
  <<viewerMounted, viewerProps, viewerRuns, viewerFirstRun, viewerSessionIdRef, creating,
    viewerSessions>>

ViewerInit ==
  /\ viewerMounted = FALSE
  /\ viewerProps = [sessionId |-> "s1", userId |-> ""]
  /\ viewerRuns = 0
  /\ viewerFirstRun = 0
  /\ viewerSessionIdRef = Null
  /\ creating = <<>>
  /\ viewerSessions = <<>>

\* the cleanup of the effect (lines 50-57): updateDoc of the record the ref
\* names, if any
ViewerCleanup(ran) ==
  IF ran /\ viewerSessionIdRef # Null
  THEN [viewerSessions EXCEPT ![Val(viewerSessionIdRef)].leftAt = TRUE]
  ELSE viewerSessions

\* the body of the effect (lines 29-47) with arguments p
ViewerEffect(p) ==
  /\ viewerRuns' = viewerRuns + 1
  /\ creating' = IF p.sessionId = "" THEN creating
                 ELSE Append(creating, [run |-> viewerRuns + 1, sessionId |-> p.sessionId])

ViewerMount(p) ==
  /\ ~viewerMounted /\ viewerRuns < MaxRuns
  /\ viewerMounted' = TRUE
  /\ viewerProps' = p
  /\ viewerSessionIdRef' = Null
  /\ viewerFirstRun' = viewerRuns + 1
  /\ ViewerEffect(p)
  /\ UNCHANGED viewerSessions

\* sessionId or userId changes: cleanup of the previous run, then the effect
\* runs again; a run with an empty sessionId returned no cleanup
ViewerPropsChange(p) ==
  /\ viewerMounted /\ viewerRuns < MaxRuns
  /\ p # viewerProps
  /\ viewerProps' = p
  /\ viewerSessions' = ViewerCleanup(viewerProps.sessionId # "")
  /\ ViewerEffect(p)
  /\ UNCHANGED <<viewerMounted, viewerFirstRun, viewerSessionIdRef>>

ViewerUnmount ==
  /\ viewerMounted
  /\ viewerMounted' = FALSE
  /\ viewerSessions' = ViewerCleanup(viewerProps.sessionId # "")
  /\ UNCHANGED <<viewerProps, viewerRuns, viewerFirstRun, viewerSessionIdRef, creating>>

RemoveCreate(i) == [k \in 1..(Len(creating) - 1) |-> IF k < i THEN creating[k] ELSE creating[k + 1]]

\* addDoc of createSession resolves: the record exists with leftAt: null and
\* its id is stored in the ref of the component that made the call (which
\* may be gone by now: the mounted component has another ref)
CreateSessionOk(i) ==
  /\ i \in 1..Len(creating)
  /\ viewerSessions' = Append(viewerSessions,
       [run |-> creating[i].run, sessionId |-> creating[i].sessionId, leftAt |-> FALSE])
  /\ viewerSessionIdRef' =
       IF viewerMounted /\ creating[i].run >= viewerFirstRun
       THEN Some(Len(viewerSessions) + 1)
       ELSE viewerSessionIdRef
  /\ creating' = RemoveCreate(i)
  /\ UNCHANGED <<viewerMounted, viewerProps, viewerRuns, viewerFirstRun>>

\* addDoc rejects: the error is logged
CreateSessionFail(i) ==
  /\ i \in 1..Len(creating)
  /\ creating' = RemoveCreate(i)
  /\ UNCHANGED <<viewerMounted, viewerProps, viewerRuns, viewerFirstRun, viewerSessionIdRef,
                 viewerSessions>>

ViewerNext ==
  \/ \E p \in ViewerProps : ViewerMount(p)
  \/ \E p \in ViewerProps : ViewerPropsChange(p)
  \/ ViewerUnmount
  \/ \E i \in 1..MaxRuns : CreateSessionOk(i)
  \/ \E i \in 1..MaxRuns : CreateSessionFail(i)

\* ========================================================== specifications
vars == <<syncVars, sessionVars, chatVars, sendVars, countdownVars, viewerVars>>

Init ==
  SyncInit /\ SessionInit /\ ChatInit /\ SendInit /\ CountdownInit /\ ViewerInit

\* The clock and the hook, with streams that play without stalling
Next ==
  \/ \E p \in SessionProps : Mount(p, NoBlock)
  \/ \E p \in SessionProps : PropsChange(p)
  \/ Unmount(TRUE, NoThrow)
  \/ \E i \in 1..MaxCalls, d \in WriteLatencies : AddDocOk(i, d, FullRate)
  \/ \E i \in 1..MaxCalls : GetDocOk(i, ReadLatency, FullRate)
  \/ \E i \in 1..MaxCalls : AddDocFail(i, ReadLatency, FullRate)
  \/ \E i \in 1..MaxCalls : GetDocFail(i, ReadLatency, FullRate)
  \/ \E i \in 1..MaxCalls : GetDocMissing(i, ReadLatency, FullRate)
  \/ WaitTimer(FullRate)
  \/ \E d \in IdleSteps : Idle(d)
  \/ HookTick
  \/ PlayerTick

Spec == Init /\ [][Next /\ UNCHANGED <<sessionVars, chatVars, sendVars, countdownVars, viewerVars>>]_vars

\* The player, with streams that stall and autoplay that may be blocked
PlayerNext ==
  \/ \E p \in SessionProps, bl \in BlockChoices : Mount(p, bl)
  \/ \E p \in SessionProps : PropsChange(p)
  \/ \E detached \in BOOLEAN : Unmount(detached, NoThrow)
  \/ \E i \in 1..MaxCalls, c \in ProgressChoices : AddDocOk(i, ReadLatency, c)
  \/ \E i \in 1..MaxCalls, c \in ProgressChoices : GetDocOk(i, ReadLatency, c)
  \/ \E i \in 1..MaxCalls : AddDocFail(i, ReadLatency, FullRate)
  \/ \E c \in ProgressChoices : WaitTimer(c)
  \/ HookTick
  \/ PlayerTick
  \/ UserGesture

\* (the skew of the server clock plays no part in it)
SpecPlayer == (Init /\ skew = 0) /\ [][PlayerNext /\ UNCHANGED <<sessionVars, chatVars, sendVars, countdownVars, viewerVars>>]_vars

\* The player, with player elements whose operations may throw
ErrorsNext ==
  \/ \E p \in SessionProps, bl \in BlockChoices : Mount(p, bl)
  \/ \E th \in [Streams -> {"none", "pause"}] : Unmount(FALSE, th)
  \/ \E i \in 1..MaxCalls : AddDocOk(i, ReadLatency, FullRate)
  \/ \E i \in 1..MaxCalls : GetDocOk(i, ReadLatency, FullRate)
  \/ WaitTimer(FullRate)
  \/ HookTick
  \/ PlayerTick
  \/ \E x \in Streams, at \in {"currentTime", "play"} : PlayerTickThrows(x, at)

SpecErrors == (Init /\ skew = 0) /\ [][ErrorsNext /\ UNCHANGED <<sessionVars, chatVars, sendVars, countdownVars, viewerVars>>]_vars

\* The session phase hook
SpecSession == Init /\ [][SessionNext /\ UNCHANGED <<syncVars, chatVars, sendVars, countdownVars, viewerVars>>]_vars

\* The chat feed
SpecChat == Init /\ [][ChatNext /\ UNCHANGED <<syncVars, sessionVars, sendVars, countdownVars, viewerVars>>]_vars

\* The session phase hook under SessionPage, with its countdown; time passes
\* as long as the bound allows and a set interval fires
SpecSessionLive ==
  /\ Init
  /\ [][SessionLiveNext /\ UNCHANGED <<syncVars, chatVars, sendVars, viewerVars>>]_vars
  /\ WF_<<sessionVars, countdownVars>>(TimePasses /\ UNCHANGED countdownVars)
  /\ WF_<<sessionVars, countdownVars>>(CountdownTick)

\* Viewer tracking
SpecViewer ==
  Init /\ [][ViewerNext /\ UNCHANGED <<syncVars, sessionVars, chatVars, sendVars, countdownVars>>]_vars

\* The rate limit of sendMessage
SpecSend == Init /\ [][SendNext /\ UNCHANGED <<syncVars, sessionVars, chatVars, countdownVars, viewerVars>>]_vars

\* ================================================================= claims
\* the instant a scheduledStart denotes, in milliseconds
InstantOf(st) ==
  CASE st.kind = "string" -> 1000 * st.a + st.b
    [] st.kind = "Timestamp" -> 1000 * st.a + st.b \div 1000000
    [] st.kind = "Date" -> st.a

\* a getServerTime call settled in this step
Settles == lastResult'.n # lastResult.n
\* ... by the failure of its round trip
Fails == Settles /\ lastResult'.path \in {"fallback", "error"}
\* a sync() that was started by a timer or a render resolved from the cache
\* in this step and was applied by the hook
CacheSync == Settles /\ lastResult'.path = "cache"
\* the round trip of call i ended in this step with a resolved value that
\* the hook applied
RoundTripSync(i) ==
  /\ Settles /\ lastResult'.kind = "resolved" /\ lastResult'.path # "cache"
  /\ calls' = Remove(calls, i)
  /\ calls[i].alive /\ isMounted

\* C1: after every successful sync of the hook, liveOffset is
\* max(0, (serverTime - scheduledStart) / 1000) for the server time the call
\* resolved with and the scheduledStart of the effect run that issued the
\* sync, and isSynced is true
C1_LiveOffsetAfterSync ==
  [][/\ CacheSync =>
          /\ liveOffset' = Max(0, lastResult'.value - InstantOf(props'.scheduledStart))
          /\ isSynced'
     /\ \A i \in 1..Len(calls) : RoundTripSync(i) =>
          /\ liveOffset' = Max(0, lastResult'.value - InstantOf(calls[i].scheduledStart))
          /\ isSynced']_vars

\* a sync resolved 100 ms or more after a Timestamp start and was applied
C1_Witness ==
  /\ isSynced /\ renders = 1 /\ roundTrips = 1 /\ lastResult.path = "fresh"
  /\ props.scheduledStart.kind = "Timestamp"
  /\ lastResult.value >= InstantOf(props.scheduledStart) + 100
  /\ liveOffset = lastResult.value - InstantOf(props.scheduledStart)

\* C2: liveOffset is never negative, and it is 0 after a sync whose server
\* time is earlier than scheduledStart
C2_LiveOffsetNonNegative ==
  /\ [](liveOffset >= 0)
  /\ [][/\ (CacheSync /\ lastResult'.value < InstantOf(props'.scheduledStart))
            => liveOffset' = 0
        /\ \A i \in 1..Len(calls) :
             (RoundTripSync(i) /\ lastResult'.value < InstantOf(calls[i].scheduledStart))
               => liveOffset' = 0]_vars

\* the only sync of the only render resolved with a server time before the start
C2_Witness ==
  /\ isSynced /\ renders = 1 /\ roundTrips = 1 /\ lastResult.path = "fresh"
  /\ lastResult.value < InstantOf(props.scheduledStart)
  /\ liveOffset = 0

\* a correction tick ran in this step
Ticks == lastTick'.n # lastTick.n /\ mounted'

\* C3: at a correction tick every attached stream is seeked to liveOffset
\* iff its drift is strictly above 0.25 s, and is left alone otherwise
C3_CorrectionIffDrift ==
  [][Ticks => \A s \in Streams : refs[s] =>
       IF Abs(currentTime[s] - liveOffset) > 250
       THEN lastTick'.seeked[s] /\ currentTime'[s] = liveOffset
       ELSE ~lastTick'.seeked[s] /\ currentTime'[s] = currentTime[s]]_vars

\* main drifted by exactly 0.25 s and was left alone while face was seeked
C3_Witness ==
  /\ lastTick.n = 1 /\ refs["main"] /\ refs["face"]
  /\ playerDeadline = Some(clock + SYNC_INTERVAL_MS)
  /\ currentTime["main"] = liveOffset + 250 /\ ~lastTick.seeked["main"]
  /\ currentTime["face"] = liveOffset /\ lastTick.seeked["face"]

\* C4: a snapshot of an existing document with isLive = true reports 'live'
C4_LiveFlagWins ==
  (session # Null /\ Val(session).isLive) => sessionState = "live"

\* live although the snapshot was taken before scheduledStart
C4_Witness ==
  /\ session # Null /\ Val(session).isLive /\ sessionState = "live"
  /\ snapshotAt < 1000 * Val(session).scheduledStart.sec + Val(session).scheduledStart.ms

\* C5: a snapshot of an existing document with isLive = false reports
\* 'scheduled' iff now < scheduledStart and 'ended' otherwise
C5_ScheduledIffBeforeStart ==
  (session # Null /\ ~Val(session).isLive) =>
     LET start == 1000 * Val(session).scheduledStart.sec + Val(session).scheduledStart.ms
     IN sessionState = IF snapshotAt < start THEN "scheduled" ELSE "ended"

\* now = scheduledStart, before scheduledEnd: 'ended'
C5_Witness ==
  /\ session # Null /\ ~Val(session).isLive /\ sessionState = "ended"
  /\ snapshotAt = 1000 * Val(session).scheduledStart.sec + Val(session).scheduledStart.ms
  /\ snapshotAt < 1000 * Val(session).scheduledEnd.sec + Val(session).scheduledEnd.ms

\* C6: a successful round trip (sent at t0, answered at t1, timestamp S)
\* caches offset = S - (t0 + (t1 - t0) / 2), unclamped, and computedAt = t1
C6_OffsetOfRoundTrip ==
  [][(Settles /\ lastResult'.path = "fresh") =>
       \E i \in 1..Len(calls) :
         /\ calls' = Remove(calls, i)
         /\ clock' >= calls[i].startTime
         /\ serverTimeOffset' # Null
         /\ 2 * calls[i].startTime + (clock' - calls[i].startTime) + Val(serverTimeOffset')
              = 2 * calls[i].timestamp
         /\ lastSyncTime' = clock']_vars

\* a negative offset with half a millisecond was cached
C6_Witness ==
  /\ lastResult.path = "fresh" /\ lastSyncTime = clock
  /\ serverTimeOffset # Null /\ Val(serverTimeOffset) < 0 /\ Val(serverTimeOffset) % 2 = 1

\* C7: a failed round trip with a cached offset younger than the fallback
\* horizon resolves with local time + that offset and leaves the cache alone
C7_FallbackOnFailure ==
  [][(Fails /\ serverTimeOffset # Null
        /\ clock' - lastSyncTime < OFFSET_CACHE_DURATION_MS) =>
       /\ lastResult'.kind = "resolved"
       /\ 2 * lastResult'.value <= 2 * clock' + Val(serverTimeOffset)
       /\ 2 * lastResult'.value > 2 * clock' + Val(serverTimeOffset) - 2
       /\ UNCHANGED <<serverTimeOffset, lastSyncTime>>]_vars

C7_Witness ==
  /\ lastResult.kind = "resolved" /\ lastResult.path = "fallback"
  /\ clock - lastSyncTime < OFFSET_CACHE_DURATION_MS

\* C8: a failed round trip without a cached offset rejects; the hook keeps
\* liveOffset, isSynced and its armed interval, and every firing of the
\* interval calls getServerTime again
C8_RejectWithoutCache ==
  /\ [][(Fails /\ serverTimeOffset = Null) =>
          /\ lastResult'.kind = "rejected"
          /\ UNCHANGED <<liveOffset, isSynced, hookDeadline>>]_vars
  /\ [](mounted => hookDeadline # Null)
  /\ [][(hookDeadline = Some(clock) /\ hookDeadline' # hookDeadline /\ mounted') =>
          (Settles \/ Len(calls') = Len(calls) + 1)]_vars

\* the first round trip of a mount was rejected and the next interval
\* tick, 30 s after the mount, started another one
C8_Witness ==
  /\ mounted /\ ~isSynced /\ renders = 1 /\ roundTrips = 2
  /\ lastResult.kind = "rejected"
  /\ Len(calls) = 1 /\ hookDeadline = Some(calls[1].startTime + RESYNC_INTERVAL_MS)
  /\ calls[1].startTime = clock /\ watched > 0

\* C9: every value getServerTime resolves with is the local clock at that
\* moment plus the cached offset
C9_ResolvesWithLocalPlusOffset ==
  [][(Settles /\ lastResult'.kind = "resolved") =>
       /\ 2 * lastResult'.value <= 2 * clock' + Val(serverTimeOffset')
       /\ 2 * lastResult'.value > 2 * clock' + Val(serverTimeOffset') - 2]_vars

\* C10: an empty window leaves the merged list as it was
C10_EmptyWindowKeepsList ==
  [][ApplyWindow(<<>>) => messages' = messages]_vars

\* an empty window was pushed while messages were held
C10_Witness == lastPush.pushed /\ window = <<>> /\ messages # <<>> /\ ~chatLoading

\* the createdAt of a message of the list, in milliseconds
TimeOf(msg) == ParseDate(msg.createdAt)
\* the positions of the list that hold the id
Positions(list, id) == {j \in 1..Len(list) : list[j].id = id}

\* C11: merging the same window twice in a row gives the list that merging
\* it once gives, for every list the hook can hold and every window
C11_MergeIdempotent ==
  \A w \in Windows :
    LET newMessages == ToMessages(w, chatNow)
        once == MergeMessages(newMessages, messages)
    IN MergeMessages(newMessages, once) = once

\* a window was merged into a list of which it kept history, and merging it
\* again gives the same list
C11_Witness ==
  /\ lastPush.pushed /\ lastPush.kept > 0 /\ window # <<>>
  /\ Len(messages) = Len(window) + lastPush.kept
  /\ MergeMessages(window, messages) = messages

\* C12: after a push every id of the window is in the list exactly once and
\* with the window's record, and every record of the list at or newer than
\* the oldest record of the window is the window's
C12_WindowVersionWins ==
  [][\A w \in Windows : (ApplyWindow(w) /\ w # <<>>) =>
       LET newMessages == window' IN
       /\ \A k \in 1..Len(newMessages) :
            /\ Cardinality(Positions(messages', newMessages[k].id)) = 1
            /\ \A j \in Positions(messages', newMessages[k].id) : messages'[j] = newMessages[k]
       /\ \A j \in 1..Len(messages') :
            TimeOf(messages'[j]) >= TimeOf(newMessages[Len(newMessages)])
              => (j <= Len(newMessages) /\ messages'[j] = newMessages[j])]_vars

\* m1 was held with one payload and pushed with the other: the list holds
\* it once, with the payload of the window
C12_Witness ==
  /\ lastPush.pushed /\ "m1" \in lastPush.replaced
  /\ Cardinality(Positions(messages, "m1")) = 1
  /\ \E k \in 1..Len(window) : window[k].id = "m1" /\ window[k] = messages[k]

\* C13: the list never holds an id twice
C13_NoDuplicateIds ==
  \A i, j \in 1..Len(messages) : messages[i].id = messages[j].id => i = j

\* C14: the list is ordered newest first
C14_NewestFirst ==
  \A i \in 1..(Len(messages) - 1) : TimeOf(messages[i]) >= TimeOf(messages[i + 1])

\* C15: a push keeps every record that is strictly older than the oldest
\* record of its window: its id is in the list once afterwards
C15_OlderRecordsKept ==
  [][\A w \in Windows : (ApplyWindow(w) /\ w # <<>>) =>
       \A j \in 1..Len(messages) :
         TimeOf(messages[j]) < TimeOf(window'[Len(window')])
           => Cardinality(Positions(messages', messages[j].id)) = 1]_vars

\* C16: when the first sync completes with liveOffset > 0 every attached
\* stream is at liveOffset in the same step, before any correction tick of
\* the new interval; and while liveOffset > 0 no attached stream is moved
\* to position 0
C16_InitialSeekToLivePoint ==
  [][/\ (~isSynced /\ isSynced' /\ liveOffset' > 0) =>
          /\ refs'["main"] /\ (refs'["face"] <=> props'.faceUrl)
          /\ \A s \in Streams : refs'[s] => currentTime'[s] = liveOffset'
          /\ playerDeadline' = Some(clock' + SYNC_INTERVAL_MS)
          /\ lastTick' = lastTick
     /\ \A s \in Streams :
          (refs[s] /\ refs'[s] /\ isSynced' /\ liveOffset' > 0 /\ currentTime[s] # 0)
            => currentTime'[s] # 0]_vars

\* a late joiner: the only sync of the only render gave liveOffset > 0 and
\* both streams are at it; no correction tick has run
C16_Witness ==
  /\ isSynced /\ renders = 1 /\ roundTrips = 1 /\ liveOffset > 2000
  /\ lastTick = NoTick /\ playerDeadline = Some(clock + SYNC_INTERVAL_MS)
  /\ refs["main"] /\ refs["face"]
  /\ currentTime["main"] = liveOffset /\ currentTime["face"] = liveOffset

\* C17: at a correction tick play() is called on every attached stream that
\* is paused, whether or not the stream was seeked in that tick
C17_PausedStreamsResumed ==
  [][Ticks => \A s \in Streams :
       lastTick'.played[s] <=> (refs[s] /\ paused[s])]_vars

\* in one tick play() was called on face, which was seeked, and on main,
\* which was not
C17_Witness ==
  /\ lastTick.seeked["face"] /\ lastTick.played["face"]
  /\ lastTick.played["main"] /\ ~lastTick.seeked["main"]
  /\ playerDeadline = Some(clock + SYNC_INTERVAL_MS)

\* C18: once 'ended' is reported for a session, no later snapshot of that
\* session changes the reported phase
C18_EndedAbsorbing ==
  [][(sessionState = "ended" /\ ~loading /\ sessionId' = sessionId)
       => sessionState' = "ended"]_vars

\* C19: the result of a getServerTime call that was issued for another
\* scheduledStart than the current one changes neither liveOffset nor
\* isSynced
C19_StaleSyncDiscarded ==
  [][\A i \in 1..Len(calls) :
       (Settles /\ calls' = Remove(calls, i) /\ mounted
          /\ calls[i].scheduledStart # props.scheduledStart)
         => UNCHANGED <<liveOffset, isSynced>>]_vars

\* C20: a page fetched for another session than the current one is not
\* appended to the list
C20_StalePageDiscarded ==
  [][\A i \in 1..MaxFetches, page \in Windows :
       (LoadMoreDone(i, page) /\ fetches[i].sessionId # chatSessionId)
         => messages' = messages]_vars

\* C21: two round trips to the timestamp authority are never in flight at
\* the same time
C21_OneRoundTripAtATime == Len(calls) <= 1

\* C22: at unmount every stream the player managed is paused, has its src
\* cleared and is reloaded, in that order
C22_TeardownCleansStreams ==
  [][(mounted /\ ~mounted') =>
       \A s \in Streams : refs[s] => cleaned'[s] = <<"pause", "setAttribute", "load">>]_vars

\* C23: after an unmount no timer is armed and nothing of the player changes;
\* after a session change the sync of the previous effect run changes
\* neither the hook state nor the player
C23_TornDownContextIsSilent ==
  /\ [](~mounted => (hookDeadline = Null /\ playerDeadline = Null))
  /\ [][(~mounted /\ ~mounted') => UNCHANGED <<liveOffset, isSynced, currentTime, paused>>]_vars
  /\ [][\A i \in 1..Len(calls) :
          (Settles /\ calls' = Remove(calls, i) /\ mounted /\ mounted'
             /\ calls[i].scheduledStart # props.scheduledStart)
            => UNCHANGED <<liveOffset, isSynced, playerDeadline, refs>>]_vars

\* C24: when the correction of main throws in a tick, face is still
\* evaluated in that tick: seeked if it drifted, resumed if it is paused
C24_FaceCorrectedWhenMainThrows ==
  [][\A at \in {"currentTime", "play"} :
       (PlayerTickThrows("main", at) /\ refs["face"]) =>
         /\ Abs(currentTime["face"] - liveOffset) > DRIFT_THRESHOLD_SECONDS
              => currentTime'["face"] = liveOffset
         /\ paused["face"] => lastTick'.played["face"]]_vars

\* where everyone should be right now: max(0, server time - scheduledStart)
ExpectedNow == Max(0, clock + skew - StartMillis(props.scheduledStart))

\* C27: at a correction tick the offset used is the one of the server time
\* at that tick (within the drift threshold), and a stream that is where
\* everyone should be is not seeked
C27_TickUsesCurrentOffset ==
  [][Ticks =>
       /\ Abs(liveOffset - ExpectedNow) <= DRIFT_THRESHOLD_SECONDS
       /\ \A s \in Streams :
            (refs[s] /\ Abs(currentTime[s] - ExpectedNow) <= DRIFT_THRESHOLD_SECONDS)
              => ~lastTick'.seeked[s]]_vars

\* C28: once the player is live (synced, liveOffset > 0), as long as its
\* session stays the same and every pending sync belongs to it, the position
\* of an attached stream changes outside a correction tick only by playing
C28_SeeksOnlyAtTicks ==
  [][\A s \in Streams :
       (/\ isSynced /\ liveOffset > 0 /\ refs[s] /\ refs'[s]
        /\ props' = props /\ ~Ticks
        /\ \A i \in 1..Len(calls) : calls[i].scheduledStart = props.scheduledStart) =>
         /\ currentTime'[s] >= currentTime[s]
         /\ currentTime'[s] - currentTime[s] <= clock' - clock]_vars

\* C30: a failed round trip does not fall back on a cached offset that is
\* older than the fallback horizon: the call rejects
C30_NoFallbackBeyondHorizon ==
  [][(Fails /\ serverTimeOffset # Null
        /\ clock' - lastSyncTime > OFFSET_CACHE_DURATION_MS)
       => lastResult'.kind = "rejected"]_vars

\* C25: an error of the chat subscription or of a loadMoreMessages fetch is
\* reported with a toast and leaves the merged list exactly as it was
C25_ErrorsKeepList ==
  [][(ChatError \/ \E i \in 1..MaxFetches : LoadMoreFail(i)) =>
       (messages' = messages /\ toast' # NoToast)]_vars

C25_Witness ==
  /\ toast = "Failed to load older messages"
  /\ Len(messages) >= 2

\* C26: any two messages written by one useChat instance are at least
\* 6000 ms apart
C26_WritesSixSecondsApart ==
  \A i, j \in 1..Len(written) :
    i < j => written[j] - written[i] >= RATE_LIMIT_MS

\* C29: a session reported 'scheduled' whose record is not live and whose
\* start time has been reached eventually stops being reported 'scheduled',
\* whether or not another snapshot arrives
C29_ScheduledEndsByTime ==
  (/\ sessionState = "scheduled" /\ session # Null
   /\ ~Val(session).isLive
   /\ wallClock >= ParseDate(Val(session).scheduledStart))
    ~> (sessionState # "scheduled")

\* sync() calls getServerTime in this step: a render ran the hook's effect or
\* the 30 s interval fired
CallsGetServerTime ==
  \/ renders' # renders
  \/ hookDeadline = Some(clock) /\ hookDeadline' = Some(clock + RESYNC_INTERVAL_MS)

\* C31: a getServerTime call starts a round trip if and only if no offset is
\* cached or the cached offset is 5 minutes old or older; otherwise it
\* resolves from the cache, starts no store operation and leaves the cached
\* offset and its time unchanged
C31_RoundTripIffCacheStale ==
  [][CallsGetServerTime =>
       IF serverTimeOffset # Null /\ clock - lastSyncTime < OFFSET_CACHE_DURATION_MS
       THEN /\ CacheSync
            /\ UNCHANGED <<calls, roundTrips, serverTimeOffset, lastSyncTime>>
       ELSE /\ ~Settles
            /\ roundTrips' = roundTrips + 1
            /\ Len(calls') = Len(calls) + 1
            /\ calls'[Len(calls')].pc = "addDoc"]_vars

\* a call was answered from an offset one millisecond short of 5 minutes old
C31_Witness ==
  /\ lastResult.path = "cache" /\ calls = <<>> /\ roundTrips = 1
  /\ clock - lastSyncTime = OFFSET_CACHE_DURATION_MS - 1

\* the 30 s interval of the hook fires in this step
IntervalFires ==
  hookDeadline = Some(clock) /\ hookDeadline' = Some(clock + RESYNC_INTERVAL_MS)

\* C32: a sync of the 30 s interval that succeeds leaves a cached offset that
\* was computed by a round trip of that tick, not earlier
C32_IntervalResyncsByRoundTrip ==
  [][(IntervalFires /\ Settles /\ lastResult'.kind = "resolved")
       => lastSyncTime' >= clock]_vars

\* C33: round trips are started at least 30 s apart (stated for the round
\* trips in flight, whose start times the calls record)
C33_RoundTripsThirtySecondsApart ==
  \A i, j \in 1..Len(calls) :
    i < j => calls[j].startTime - calls[i].startTime >= RESYNC_INTERVAL_MS

\* the positions of the held list that a push of window W retains: strictly
\* older than the last record of W and with an id that W does not hold
Retained(P, W) ==
  {j \in 1..Len(P) : TimeOf(P[j]) < TimeOf(W[Len(W)]) /\ Positions(W, P[j].id) = {}}

C35_RejectedPlayIsRetried ==
  /\ [][Ticks =>
         /\ \A s \in Streams : (refs[s] /\ paused[s]) =>
              /\ lastTick'.played[s]
              /\ paused'[s] = blocked[s]
         /\ playerDeadline' = Some(clock + SYNC_INTERVAL_MS)
         /\ UNCHANGED <<hookVars, refs, blocked>>]_vars
  /\ []((mounted /\ isSynced) => playerDeadline # Null)

\* play() of the main stream was rejected at the latest tick: the stream is
\* still paused and the next tick is 5 s away
C35_Witness ==
  /\ lastTick.played["main"] /\ paused["main"] /\ blocked["main"]
  /\ playerDeadline = Some(clock + SYNC_INTERVAL_MS)
  /\ lastTick.n = 0 /\ watched >= 2 * SYNC_INTERVAL_MS

\* C36: one correction tick measures both streams against one value of
\* liveOffset, which the tick does not change: two streams at the same
\* position get the same verdict, and two streams that are seeked end at
\* the same position
C36_OneSnapshotPerTick ==
  [][Ticks =>
       /\ liveOffset' = liveOffset
       /\ \A s, t \in Streams : (refs[s] /\ refs[t]) =>
            /\ currentTime[s] = currentTime[t]
                 => lastTick'.seeked[s] = lastTick'.seeked[t]
            /\ (lastTick'.seeked[s] /\ lastTick'.seeked[t])
                 => currentTime'[s] = currentTime'[t]]_vars

\* both streams were seeked by the latest tick and are at liveOffset
C36_Witness ==
  /\ lastTick.seeked["main"] /\ lastTick.seeked["face"]
  /\ currentTime["main"] = currentTime["face"]
  /\ currentTime["main"] = liveOffset
  /\ lastTick.n = 1

\* C37: while isSynced is false no correction timer is set and no stream is
\* attached, and no step that leaves it false writes a position, calls
\* play() or runs a correction tick, whatever the syncs before it did
C37_NoCorrectionBeforeFirstSync ==
  /\ [](~isSynced => (playerDeadline = Null /\ \A s \in Streams : ~refs[s]))
  /\ [][(~isSynced /\ ~isSynced') => UNCHANGED <<currentTime, paused, lastTick>>]_vars

\* the first sync and the retry of the 30 s interval both failed with no
\* cached offset: the player is mounted and still not synced
C37_Witness ==
  /\ mounted /\ ~isSynced /\ renders = 1
  /\ lastResult.kind = "rejected" /\ roundTrips = 2
  /\ clock > 10000 + RESYNC_INTERVAL_MS
  /\ playerDeadline = Null

\* C38: once a window of the current session has been applied, every record
\* of the list belongs to the current session
C38_ListOfCurrentSessionOnly ==
  lastPush.pushed =>
    \A k \in 1..Len(messages) : messages[k].sessionId = chatSessionId

\* the effect run that created the record has been torn down
RunEnded(run) == run < viewerRuns \/ ~viewerMounted

\* C39: every viewer_sessions record whose effect run has been torn down
\* has leftAt written
C39_LeftAtWrittenAtTeardown ==
  \A id \in 1..Len(viewerSessions) :
    RunEnded(viewerSessions[id].run) => viewerSessions[id].leftAt


\* C40: a failure of the session subscription is reported through the hook's
\* error value: the step that sets error also leaves loading FALSE and keeps
\* session and sessionState exactly as they were (no step ends with error set
\* and another session or sessionState than before), and every step in which
\* a snapshot is applied (session, sessionState or the snapshot's time
\* changes) ends with error cleared.
C40_SubscriptionErrorIsReported ==
  [][ /\ error' => (~loading' /\ session' = session /\ sessionState' = sessionState)
      /\ (session' # session \/ sessionState' # sessionState \/ snapshotAt' # snapshotAt)
           => ~error' ]_vars

\* the subscription failed after a live session had been shown: the session
\* and its state are still there
C40_Witness ==
  /\ error /\ ~loading
  /\ session # Null /\ Val(session).isLive
  /\ sessionState = "live"

====
